---- MODULE Spec2Model ----
(***************************************************************************)
(* CSVtoMySQL (src/CSVtoMySQL.py): a CSV file is read with pandas, every   *)
(* row gets a fingerprint (md5 of the '|'-joined str() of its values) and  *)
(* the rows whose fingerprint is not yet in the MySQL table are written    *)
(* with INSERT IGNORE.  The model has the file system, the MySQL store     *)
(* (one table, one transaction per connection) and up to two instances of  *)
(* the class, each on its own connection.                                  *)
(***************************************************************************)
EXTENDS Integers, Sequences, FiniteSets, TLC

VARIABLES
    fs,          \* file name -> NoFile or [mtime, rows]: the CSV files on disk
    dirExists,   \* whether csv.scan_directory exists
    clock,       \* the file system's time, stamps mtime on every write
    config,      \* the two configuration keys the sync reads
    connector,   \* the build of mysql.connector the program runs with
    schema,      \* NoTable, or the table definition the store holds
    table,       \* the table's rows in insertion order, pending ones included
    pc,          \* per instance: position inside the running call
    csv,         \* per instance: csv_file_to_process
    df,          \* per instance: the rows pd.read_csv returned
    existing,    \* per instance: existing_hashes
    todo,        \* per instance: fingerprints still to be written, in order
    rows_inserted, \* per instance: the local counter of the running call
    outcome,     \* per instance: how the last call ended
    faults,      \* number of store failures injected so far
    budget,      \* number of calls the callers can still make
    counted,     \* sum of the row counts returned by all calls so far
    hist,        \* per instance: the record of the running and the last call
    mpc,         \* the position of the program inside __main__
    configFile,  \* config.json on disk: "valid", "missing", "invalid", or
                 \* "default" once create_default_config has written it
    exit_status, \* None while the program runs, then the status it exits with
    failure,     \* what failed in the current run of the program, or "none"
    wpc,         \* the position inside monitor_csv_and_sync
    watched,     \* the csv_file argument of monitor_csv_and_sync
    last_processed_file, \* local of the watch loop
    last_modified,       \* local of the watch loop
    current_file,        \* local of the watch loop
    current_modified,    \* local of the watch loop
    invoked      \* the current iteration of the watch loop called the sync

SyncVars == <<fs, dirExists, clock, config, connector, schema, table, pc, csv, df,
              existing, todo, rows_inserted, outcome, faults, budget, counted,
              hist>>
MainVars == <<mpc, configFile, exit_status, failure>>
WatchVars == <<wpc, watched, last_processed_file, last_modified, current_file,
               current_modified, invoked>>

vars == <<SyncVars, MainVars, WatchVars>>

\* a step of the sync or of the environment changes nothing of its caller
NoDriver == UNCHANGED <<MainVars, WatchVars>>

\* the builds of mysql.connector a program can run with: the pure Python
\* implementation, the same in the versions whose converter sends a float
\* NaN as NULL, the C extension, and the C extension in the releases that
\* hand on the errors of its conversion unwrapped
Connectors == {"python", "python_nan_null", "c_ext", "c_ext_raw"}

(***************************************************************************)
(* Bounds of the model.                                                    *)
(***************************************************************************)
MaxTime == 1      \* file system clock ticks (writes to files)
MaxFaults == 1    \* store failures injected in one behaviour
MaxCalls == 3     \* calls of append_new_rows / import_csv_initial by one caller
MaxPairCalls == 2 \* calls made by two concurrent callers together
MaxRows == 2      \* data rows of a file whose content is drawn freely

Inst == {1, 2}
Other(i) == IF i = 1 THEN 2 ELSE 1

NoFile == [absent |-> TRUE]
NoTable == [absent |-> TRUE]
None == "None"

(***************************************************************************)
(* Text.  A cell of the CSV file is a sequence of characters.              *)
(***************************************************************************)
Digits == {"0", "1", "2", "3", "4", "5", "6", "7", "8", "9"}

\* pandas' default na_values that the rows of the model can spell
NaLits == { <<>>, <<"N", "A">>, <<"n", "a", "n">>, <<"N", "a", "N">> }

TrueLits == { <<"T", "r", "u", "e">>, <<"T", "R", "U", "E">>, <<"t", "r", "u", "e">> }
FalseLits == { <<"F", "a", "l", "s", "e">>, <<"F", "A", "L", "S", "E">>,
               <<"f", "a", "l", "s", "e">> }

IsNA(c) == c \in NaLits

IsDigits(s) == Len(s) > 0 /\ \A k \in 1..Len(s) : s[k] \in Digits

IsIntLit(c) == IsDigits(c)

\* digits '.' digits with a digit on at least one side, or an integer
IsFloatLit(c) ==
    \/ IsIntLit(c)
    \/ \E k \in 1..Len(c) :
          /\ c[k] = "."
          /\ \A m \in (1..Len(c)) \ {k} : c[m] \in Digits
          /\ Len(c) > 1

IsBoolLit(c) == c \in TrueLits \cup FalseLits

RECURSIVE StripLeadingZeros(_)
StripLeadingZeros(s) ==
    IF Len(s) > 1 /\ s[1] = "0" THEN StripLeadingZeros(Tail(s)) ELSE s

RECURSIVE StripTrailingZeros(_)
StripTrailingZeros(s) ==
    IF Len(s) > 1 /\ s[Len(s)] = "0"
    THEN StripTrailingZeros(SubSeq(s, 1, Len(s) - 1)) ELSE s

DotAt(c) == IF \E k \in 1..Len(c) : c[k] = "."
            THEN CHOOSE k \in 1..Len(c) : c[k] = "."
            ELSE Len(c) + 1

\* str(int(c))
IntStr(c) == StripLeadingZeros(c)

\* str(float(c)): repr of the double, for the short literals of the model
FloatStr(c) ==
    LET k == DotAt(c)
        ip == SubSeq(c, 1, k - 1)
        fp == SubSeq(c, k + 1, Len(c))
    IN  StripLeadingZeros(IF ip = <<>> THEN <<"0">> ELSE ip)
        \o <<".">>
        \o StripTrailingZeros(IF fp = <<>> THEN <<"0">> ELSE fp)

BoolStr(c) == IF c \in TrueLits THEN <<"T", "r", "u", "e">>
              ELSE <<"F", "a", "l", "s", "e">>

NaNStr == <<"n", "a", "n">>

(***************************************************************************)
(* pd.read_csv: the header of every file of the model has NCols names; a   *)
(* data row with fewer fields is filled up with NaN, as an empty field is. *)
(***************************************************************************)
NCols == 2

\* mutant: a missing trailing field is read as text of its own
CellUnpadded(row, j) == IF j <= Len(row) THEN row[j] ELSE <<"?">>

\* field j of a data row as the parser sees it
Cell(row, j) == IF j <= Len(row) THEN row[j] ELSE <<>>

\* the dtype pandas infers for column j from all the data rows of the file
ColDtype(rows, j) ==
    LET vals == { Cell(rows[r], j) : r \in 1..Len(rows) }
        some == { c \in vals : ~IsNA(c) }
    IN  IF rows = <<>> THEN "object"
        ELSE IF some = {} THEN "float64"
        ELSE IF \A c \in some : IsIntLit(c)
             THEN (IF some = vals THEN "int64" ELSE "float64")
        ELSE IF \A c \in some : IsFloatLit(c) THEN "float64"
        ELSE IF some = vals /\ \A c \in vals : IsBoolLit(c) THEN "bool"
        ELSE "object"

\* the parser reads the values of column j as booleans: every value that is
\* not missing is a boolean literal.  With no missing value the column is
\* bool, with one it is an object column of True, False and NaN.
ParsedAsBool(rows, j) ==
    LET vals == { Cell(rows[r], j) : r \in 1..Len(rows) }
        some == { c \in vals : ~IsNA(c) }
    IN  /\ some # {}
        /\ \A c \in some : IsBoolLit(c)

\* str(value) for the value iterrows() yields in column j of row r: the row
\* Series has the common dtype of the columns, so in an all-numeric frame
\* with a float64 column the int64 values come out as floats; a boolean is
\* written True or False however the file spells it
ValueStr(rows, r, j) ==
    LET c == Cell(rows[r], j)
        dt == ColDtype(rows, j)
        nums == \A m \in 1..NCols : ColDtype(rows, m) \in {"int64", "float64"}
        flt == \E m \in 1..NCols : ColDtype(rows, m) = "float64"
    IN  CASE dt = "int64" -> IF nums /\ flt THEN FloatStr(c) ELSE IntStr(c)
          [] dt = "float64" -> IF IsNA(c) THEN NaNStr ELSE FloatStr(c)
          [] dt = "bool" -> BoolStr(c)
          [] OTHER -> IF IsNA(c) THEN NaNStr
                      ELSE IF ParsedAsBool(rows, j) THEN BoolStr(c)
                      ELSE c

RECURSIVE JoinFrom(_, _, _)
JoinFrom(rows, r, j) ==
    IF j > NCols THEN <<>>
    ELSE (IF j > 1 THEN <<"|">> ELSE <<>>) \o ValueStr(rows, r, j)
         \o JoinFrom(rows, r, j + 1)

\* the digest is taken as injective: the fingerprint is the digested string
md5(s) == s

generate_row_hash(rows, r) == md5(JoinFrom(rows, r, 1))

\* the fingerprints of the rows of a frame, in row order
RowHashes(rows) == [r \in 1..Len(rows) |-> generate_row_hash(rows, r)]

\* the dtype of the Series iterrows() yields for a row: the common dtype of
\* the columns; int64 and float64 columns meet in float64, any other mix is
\* object
RowDtype(rows) ==
    LET dts == { ColDtype(rows, j) : j \in 1..NCols }
    IN  IF \E d \in dts : dts = {d} THEN CHOOSE d \in dts : TRUE
        ELSE IF dts \subseteq {"int64", "float64"} THEN "float64"
        ELSE "object"

\* row r of the frame holds a NaN
HasNaN(rows, r) == \E j \in 1..NCols : IsNA(Cell(rows[r], j))

\* list(row.values) as parameters of cursor.execute (lines 285/296 and
\* 358/369): what becomes of the statement in the connector.  "sent": the
\* store gets it; "error": it fails with a mysql.connector.Error; "escapes":
\* it fails with an exception that is no mysql.connector.Error.  The values
\* of an object row are Python objects, of which a float NaN is sent as NULL
\* by some versions and as the word nan, which the statement does not parse,
\* by the others.  The values of a numeric or a bool row are numpy scalars:
\* the pure Python converter has no conversion for their classes, the C
\* extension takes a numpy.float64 for the float it derives from and
\* refuses a numpy.int64 and a numpy.bool_, with an error of its own
\* (_mysql_connector.MySQLInterfaceError) that some releases hand on as it
\* is.
to_mysql(build, rows, r) ==
    CASE RowDtype(rows) = "object" ->
            IF ~HasNaN(rows, r) \/ build = "python_nan_null"
            THEN "sent" ELSE "error"
      [] RowDtype(rows) = "float64" ->
            IF build \in {"c_ext", "c_ext_raw"} /\ ~HasNaN(rows, r)
            THEN "sent" ELSE "error"
      [] OTHER -> IF build = "c_ext_raw" THEN "escapes" ELSE "error"

Range(s) == { s[k] : k \in 1..Len(s) }

RECURSIVE SelectSeq2(_, _)
SelectSeq2(s, S) ==
    IF s = <<>> THEN <<>>
    ELSE (IF Head(s) \in S THEN <<Head(s)>> ELSE <<>>) \o SelectSeq2(Tail(s), S)

(***************************************************************************)
(* The rows the files of the model are made of.                            *)
(***************************************************************************)
RowA == << <<"1">>, <<"a">> >>
RowB == << <<"2">>, <<"b">> >>
RowC == << <<"2", ".", "5">>, <<"a">> >>

RowPool == {RowA, RowB, RowC}

\* the files of csv.scan_directory that match csv.file_pattern
Names == {"a.csv", "b.csv"}
\* the fallback file of get_csv_file_to_process, in the working directory
DefaultFile == "data.csv"
AllNames == Names \cup {DefaultFile}

\* the header line of a file: the files of the scan directory share their
\* column names, the last column of data.csv has another name
Header(n) ==
    [j \in 1..NCols |-> <<IF n = DefaultFile /\ j = NCols THEN "z" ELSE "c", j>>]

(***************************************************************************)
(* The file system: os.path.exists, glob.glob, os.path.getmtime.           *)
(***************************************************************************)
exists(n) == n \in AllNames /\ fs[n] # NoFile

\* glob.glob(os.path.join(directory, pattern))
csv_files == IF dirExists THEN { n \in Names : fs[n] # NoFile } ELSE {}

\* mutant: the scan returns a file no other file is older than
find_oldest_csv ==
    IF ~dirExists \/ csv_files = {} THEN {None}
    ELSE { n \in csv_files : \A m \in csv_files : fs[n].mtime <= fs[m].mtime }

\* max(csv_files, key=os.path.getmtime): a file no other file is newer than
find_latest_csv ==
    IF ~dirExists \/ csv_files = {} THEN {None}
    ELSE { n \in csv_files : \A m \in csv_files : fs[m].mtime <= fs[n].mtime }

\* mutant: a missing explicit path falls back to the directory scan
get_csv_file_or_latest(csv_file) ==
    IF csv_file # None /\ exists(csv_file) THEN {csv_file}
    ELSE IF config.auto_find_latest THEN find_latest_csv
    ELSE IF exists(DefaultFile) THEN {DefaultFile}
    ELSE {None}

\* get_csv_file_to_process(csv_file): the files it can return
get_csv_file_to_process(csv_file) ==
    IF csv_file # None
    THEN (IF exists(csv_file) THEN {csv_file} ELSE {None})
    ELSE IF config.auto_find_latest THEN find_latest_csv
    ELSE IF exists(DefaultFile) THEN {DefaultFile}
    ELSE {None}

\* find_latest_csv creates the scan directory when it is missing
ScansDirectory(csv_file) == csv_file = None /\ config.auto_find_latest

(***************************************************************************)
(* The store: one table, rows kept in insertion order.  A row carries the  *)
(* transaction that holds it: 0 once committed, else the connection whose  *)
(* open transaction inserted it.                                           *)
(***************************************************************************)
Committed == 0

\* mutant: the fingerprint column is created without UNIQUE
RowHashNotUnique == FALSE

\* `row_hash` VARCHAR(64) UNIQUE
RowHashUnique == TRUE

\* mutant: an int64 column is declared like a float64 column
ColumnTypeNoInt(dtype) ==
    CASE dtype \in {"int64", "float64"} -> "DECIMAL"
      [] dtype = "bool" -> "BOOLEAN"
      [] OTHER -> "VARCHAR"

\* the column types create_table_from_csv derives from the frame's dtypes
ColumnType(dtype) ==
    CASE dtype = "int64" -> "INT"
      [] dtype = "float64" -> "DECIMAL"
      [] dtype = "bool" -> "BOOLEAN"
      [] OTHER -> "VARCHAR"

\* the CREATE TABLE statement built from the header of file n and the frame
\* `rows` that was read from it
TableDefinition(n, rows) ==
    [names |-> Header(n),
     cols |-> [j \in 1..NCols |-> ColumnType(ColDtype(rows, j))],
     unique |-> RowHashUnique]

\* the INSERT of connection i names a table or a column the store has not
UnknownTarget(i) == schema = NoTable \/ schema.names # Header(csv[i])

\* SELECT row_hash FROM table, on connection i
SelectRowHash(i) ==
    { table[k].row_hash : k \in { k \in 1..Len(table) :
                                    table[k].txn \in {Committed, i} } }

Holds(t, h) == \E k \in 1..Len(table) :
                  table[k].row_hash = h /\ table[k].txn = t

\* the unique index finds fingerprint h, in a row connection i can see
DuplicateKey(i, h) ==
    schema # NoTable /\ schema.unique /\ (Holds(Committed, h) \/ Holds(i, h))

\* the unique index finds h in a row another open transaction holds: the
\* insert waits for that transaction to end
LockWait(i, h) ==
    schema # NoTable /\ schema.unique /\ ~DuplicateKey(i, h)
    /\ Holds(Other(i), h)

CommitTxn(t, i) ==
    [k \in 1..Len(t) |-> IF t[k].txn = i THEN [t[k] EXCEPT !.txn = Committed]
                         ELSE t[k]]

RollbackTxn(t, i) == SelectSeq(t, LAMBDA r : r.txn # i)

HasPending(i) == \E k \in 1..Len(table) : table[k].txn = i

CommittedHashes == [k \in 1..Len(SelectSeq(table, LAMBDA r : r.txn = Committed))
                      |-> SelectSeq(table, LAMBDA r : r.txn = Committed)[k].row_hash]

(***************************************************************************)
(* Bookkeeping of a call.                                                  *)
(***************************************************************************)
NoOutcome == [kind |-> "none", value |-> 0, error |-> None]
Returned(n) == [kind |-> "returned", value |-> n, error |-> None]
Raised(e) == [kind |-> "raised", value |-> 0, error |-> e]

NoHist ==
    [arg |-> None,           \* the csv_file argument of the call
     started |-> 0,          \* the file system's time when the call started
     exists0 |-> FALSE,      \* the table existed when the call started
     table0 |-> <<>>,        \* the table when the call started
     noSource |-> FALSE,     \* no source file could be resolved for the call
     read |-> <<>>,          \* the rows the call read from the file
     planned |-> 0,          \* rows the call set out to write
     attempts |-> 0,         \* INSERT statements the call executed
     accepted |-> 0,         \* inserts of the call that added a row
     skipped |-> 0,          \* inserts of the call that failed
     createFailed |-> FALSE, \* the store failed while the table was created
     foreign |-> FALSE,      \* another connection changed the table meanwhile
     prevReturned |-> FALSE, \* the previous call returned and no other
                             \* connection wrote since it returned
     prevSkipped |-> FALSE,  \* the previous call skipped a row
     prevRead |-> <<>>,      \* the rows the previous call read
     lastReturned |-> FALSE,
     lastSkipped |-> FALSE,
     lastRead |-> <<>>]

\* the record after `own` is applied to i's; `wrote` tells the others that
\* connection i changed the table
Hist(i, own, wrote) ==
    [j \in Inst |->
        IF j = i THEN own
        ELSE IF wrote
             THEN [hist[j] EXCEPT !.foreign = TRUE, !.lastReturned = FALSE]
        ELSE hist[j]]

\* the claim's own notion of "no source file can be resolved": the explicit
\* path does not exist, or nothing is given and the place searched is empty
NoSource(csv_file) ==
    IF csv_file # None THEN fs[csv_file] = NoFile
    ELSE IF config.auto_find_latest
         THEN ~dirExists \/ \A n \in Names : fs[n] = NoFile
    ELSE fs[DefaultFile] = NoFile

BeginCall(i, csv_file) ==
    [NoHist EXCEPT !.arg = csv_file,
                   !.started = clock,
                   !.exists0 = (schema # NoTable),
                   !.table0 = table,
                   !.noSource = NoSource(csv_file),
                   !.prevReturned = hist[i].lastReturned,
                   !.prevSkipped = hist[i].lastSkipped,
                   !.prevRead = hist[i].lastRead]

EndHist(h, o) ==
    [h EXCEPT !.lastReturned = (o.kind = "returned"),
              !.lastSkipped = (h.skipped > 0),
              !.lastRead = h.read]

\* the call of instance i ends with outcome o; its locals are gone
EndCall(i, o) ==
    /\ pc' = [pc EXCEPT ![i] = "idle"]
    /\ outcome' = [outcome EXCEPT ![i] = o]
    /\ csv' = [csv EXCEPT ![i] = None]
    /\ df' = [df EXCEPT ![i] = <<>>]
    /\ existing' = [existing EXCEPT ![i] = {}]
    /\ todo' = [todo EXCEPT ![i] = <<>>]
    /\ rows_inserted' = [rows_inserted EXCEPT ![i] = 0]
    /\ counted' = IF o.kind = "returned" THEN counted + o.value ELSE counted

(***************************************************************************)
(* append_new_rows and import_csv_initial, one action per access to the    *)
(* file system or to the store.                                            *)
(***************************************************************************)
StoreVars == <<schema, table>>
FileVars == <<fs, clock>>
Locals == <<csv, df, existing, todo, rows_inserted>>

\* lines 316-318 and 257-259: the file to process, or FileNotFoundError
ResolveFile(i, csv_file, h, next) ==
    /\ dirExists' = (dirExists \/ ScansDirectory(csv_file))
    /\ \E f \in get_csv_file_to_process(csv_file) :
          IF f = None
          THEN /\ EndCall(i, Raised("FileNotFoundError"))
               /\ hist' = Hist(i, EndHist(h, Raised("FileNotFoundError")), FALSE)
          ELSE /\ csv' = [csv EXCEPT ![i] = f]
               /\ pc' = [pc EXCEPT ![i] = next]
               /\ outcome' = [outcome EXCEPT ![i] = NoOutcome]
               /\ hist' = Hist(i, h, FALSE)
               /\ UNCHANGED <<df, existing, todo, rows_inserted, counted>>
    /\ UNCHANGED <<FileVars, config, connector, StoreVars, faults>>

\* append_new_rows(csv_file) is entered: lines 314-322
append_new_rows(i, csv_file) ==
    /\ pc[i] = "idle"
    /\ budget > 0
    /\ budget' = budget - 1
    /\ ResolveFile(i, csv_file, BeginCall(i, csv_file), "a_show")

\* a caller that is neither __main__ nor the watch loop invokes it
CallAppend(i, csv_file) == append_new_rows(i, csv_file) /\ NoDriver

\* where import_csv_initial goes after it has its file: lines 265-267
AfterResolve == IF config.auto_create_table THEN "i_create" ELSE "i_read"

\* a caller invokes import_csv_initial(csv_file): lines 255-263
CallImport(i, csv_file) ==
    /\ pc[i] = "idle"
    /\ budget > 0
    /\ budget' = budget - 1
    /\ ResolveFile(i, csv_file, BeginCall(i, csv_file), AfterResolve)
    /\ NoDriver

\* lines 324-328: SHOW TABLES LIKE; a missing table hands over to
\* import_csv_initial(csv_file_to_process, table_name)
AppendShowTables(i) ==
    /\ pc[i] = "a_show"
    /\ pc' = [pc EXCEPT ![i] = IF schema # NoTable THEN "a_select"
                               ELSE "i_resolve"]
    /\ UNCHANGED <<FileVars, dirExists, config, connector, StoreVars, Locals, outcome,
                   faults, budget, counted, hist>>
    /\ NoDriver

\* line 328 into lines 257-267: import_csv_initial looks its file up again
ImportResolve(i) ==
    /\ pc[i] = "i_resolve"
    /\ ResolveFile(i, csv[i], hist[i], AfterResolve)
    /\ UNCHANGED budget
    /\ NoDriver

\* line 331: get_existing_hashes
AppendLoadHashes(i) ==
    /\ pc[i] = "a_select"
    /\ existing' = [existing EXCEPT ![i] =
                      IF schema = NoTable THEN {} ELSE SelectRowHash(i)]
    /\ pc' = [pc EXCEPT ![i] = "a_read"]
    /\ UNCHANGED <<FileVars, dirExists, config, connector, StoreVars, csv, df, todo,
                   rows_inserted, outcome, faults, budget, counted, hist>>
    /\ NoDriver

\* mutant: the test of line 348 is inverted
known_rows(rows, known) ==
    SelectSeq(RowHashes(rows), LAMBDA h : h \in known)

\* lines 345-349: the rows of the frame whose fingerprint is not in
\* existing_hashes, in row order
new_rows(rows, known) ==
    SelectSeq(RowHashes(rows), LAMBDA h : h \notin known)

\* mutant: the rows of the frame are written last row first
all_rows_last_first(rows, known) ==
    [k \in 1..Len(rows) |-> RowHashes(rows)[Len(rows) + 1 - k]]

\* the rows import_csv_initial writes: all of them (lines 281-282)
all_rows(rows, known) == RowHashes(rows)

\* pd.read_csv on a file that is gone
ReadFails(i) ==
    /\ EndCall(i, Raised("FileNotFoundError"))
    /\ hist' = Hist(i, EndHist(hist[i], Raised("FileNotFoundError")), FALSE)

\* lines 338-353: read the file, keep the new rows; none: return 0
AppendScan(i) ==
    /\ pc[i] = "a_read"
    /\ IF ~exists(csv[i])
       THEN ReadFails(i)
       ELSE LET rows == fs[csv[i]].rows
                new == new_rows(rows, existing[i])
                h1 == [hist[i] EXCEPT !.read = rows, !.planned = Len(new)]
            IN  IF new = <<>>
                THEN /\ EndCall(i, Returned(0))
                     /\ hist' = Hist(i, EndHist(h1, Returned(0)), FALSE)
                ELSE /\ df' = [df EXCEPT ![i] = rows]
                     /\ todo' = [todo EXCEPT ![i] = new]
                     /\ rows_inserted' = [rows_inserted EXCEPT ![i] = 0]
                     /\ pc' = [pc EXCEPT ![i] = "insert"]
                     /\ hist' = Hist(i, h1, FALSE)
                     /\ UNCHANGED <<csv, existing, outcome, counted>>
    /\ UNCHANGED <<FileVars, dirExists, config, connector, StoreVars, faults, budget>>
    /\ NoDriver

\* lines 186-190: create_table_from_csv reads the file into its own frame,
\* from which it builds the statement (lines 193-219)
CreateTableRead(i) ==
    /\ pc[i] = "i_create"
    /\ IF ~exists(csv[i])
       THEN ReadFails(i)
       ELSE /\ df' = [df EXCEPT ![i] = fs[csv[i]].rows]
            /\ pc' = [pc EXCEPT ![i] = "i_ddl"]
            /\ hist' = Hist(i, hist[i], FALSE)
            /\ UNCHANGED <<csv, existing, todo, rows_inserted, outcome,
                           counted>>
    /\ UNCHANGED <<FileVars, dirExists, config, connector, StoreVars, faults, budget>>
    /\ NoDriver

\* mutant: the table is defined anew from the file of every import
ImportCreateTableAnew(i) ==
    /\ pc[i] = "i_ddl"
    /\ schema' = TableDefinition(csv[i], df[i])
    /\ table' = CommitTxn(table, i)
    /\ pc' = [pc EXCEPT ![i] = "i_commit"]
    /\ hist' = Hist(i, hist[i], schema = NoTable \/ HasPending(i))
    /\ UNCHANGED <<Locals, outcome, counted>>
    /\ UNCHANGED <<FileVars, dirExists, config, connector, faults, budget>>
    /\ NoDriver

\* line 221: the statement is executed; CREATE TABLE IF NOT EXISTS leaves an
\* existing table as it is, and the DDL ends the open transaction
ImportCreateTable(i) ==
    /\ pc[i] = "i_ddl"
    /\ schema' = IF schema = NoTable
                 THEN TableDefinition(csv[i], df[i]) ELSE schema
    /\ table' = CommitTxn(table, i)
    /\ pc' = [pc EXCEPT ![i] = "i_commit"]
    /\ hist' = Hist(i, hist[i], schema = NoTable \/ HasPending(i))
    /\ UNCHANGED <<Locals, outcome, counted>>
    /\ UNCHANGED <<FileVars, dirExists, config, connector, faults, budget>>
    /\ NoDriver

\* line 222: connection.commit(); create_table_from_csv returns and its
\* frame is gone
CreateTableCommit(i) ==
    /\ pc[i] = "i_commit"
    /\ table' = CommitTxn(table, i)
    /\ df' = [df EXCEPT ![i] = <<>>]
    /\ pc' = [pc EXCEPT ![i] = "i_read"]
    /\ hist' = Hist(i, hist[i], HasPending(i))
    /\ UNCHANGED <<FileVars, dirExists, config, connector, schema, csv, existing, todo,
                   rows_inserted, outcome, faults, budget, counted>>
    /\ NoDriver

\* lines 273-280: read the file; every row is to be written
ImportRead(i) ==
    /\ pc[i] = "i_read"
    /\ IF ~exists(csv[i])
       THEN ReadFails(i)
       ELSE /\ df' = [df EXCEPT ![i] = fs[csv[i]].rows]
            /\ todo' = [todo EXCEPT ![i] = all_rows(fs[csv[i]].rows, {})]
            /\ rows_inserted' = [rows_inserted EXCEPT ![i] = 0]
            /\ pc' = [pc EXCEPT ![i] = "insert"]
            /\ hist' = Hist(i, [hist[i] EXCEPT !.read = fs[csv[i]].rows,
                                                !.planned = Len(fs[csv[i]].rows)],
                            FALSE)
            /\ UNCHANGED <<csv, existing, outcome, counted>>
    /\ UNCHANGED <<FileVars, dirExists, config, connector, StoreVars, faults, budget>>
    /\ NoDriver

\* mutant: the counter goes up for every statement that did not fail
CountsEveryInsert(rowcount) == TRUE

\* lines 297 and 370: cursor.rowcount > 0
Counts(rowcount) == rowcount > 0

\* the row of its frame the insert loop of instance i is at: the loop goes
\* through the rows it kept (all rows of the frame in import_csv_initial,
\* where existing is empty) in row order, and todo holds the fingerprints
\* of those it has not reached yet
NextRow(i) ==
    LET kept == SelectSeq([r \in 1..Len(df[i]) |-> r],
                          LAMBDA r : generate_row_hash(df[i], r) \notin existing[i])
    IN  kept[Len(kept) + 1 - Len(todo[i])]

\* what becomes of the values of that row in the connector of instance i
Conversion(i) == to_mysql(connector, df[i], NextRow(i))

\* the connector of instance i can send the values of the row its loop is at
Sendable(i) == Conversion(i) = "sent"

\* the INSERT of instance i for fingerprint h waits for a lock: a statement
\* the connector cannot send, or one that names a table or a column the
\* store does not have, fails at once
InsertWaits(i, h) == Sendable(i) /\ ~UnknownTarget(i) /\ LockWait(i, h)

\* lines 295-300 and 368-373: INSERT IGNORE of the next row.  Values the
\* connector cannot send, a missing table or a column the table has not are
\* an error of the statement (a mysql.connector.Error), which is caught and
\* logged; a duplicate key is ignored with rowcount 0.  An exception of the
\* connector that is no mysql.connector.Error passes lines 299 and 372: it
\* is logged and raised again by lines 306-308 and 379-381, with no commit
\* and no rollback.
InsertRow(i) ==
    /\ pc[i] = "insert"
    /\ todo[i] # <<>>
    /\ LET h == Head(todo[i])
       IN  /\ ~InsertWaits(i, h)
           /\ IF Conversion(i) = "escapes"
              THEN /\ EndCall(i, Raised("MySQLInterfaceError"))
                   /\ hist' = Hist(i, EndHist([hist[i] EXCEPT !.attempts = @ + 1],
                                               Raised("MySQLInterfaceError")),
                                   FALSE)
                   /\ UNCHANGED table
              ELSE /\ todo' = [todo EXCEPT ![i] = Tail(todo[i])]
                   /\ UNCHANGED <<csv, df, existing, pc, outcome, counted>>
                   /\ IF ~Sendable(i) \/ UnknownTarget(i)
                      THEN /\ hist' = Hist(i, [hist[i] EXCEPT !.skipped = @ + 1,
                                                              !.attempts = @ + 1],
                                           FALSE)
                           /\ UNCHANGED <<table, rows_inserted>>
                      ELSE LET rowcount == IF DuplicateKey(i, h) THEN 0 ELSE 1
                           IN  /\ table' =
                                    IF rowcount = 1
                                    THEN Append(table, [row_hash |-> h, txn |-> i])
                                    ELSE table
                               /\ rows_inserted' =
                                    [rows_inserted EXCEPT ![i] =
                                        IF Counts(rowcount) THEN @ + 1 ELSE @]
                               /\ hist' = Hist(i, [hist[i] EXCEPT
                                                       !.accepted = @ + rowcount,
                                                       !.attempts = @ + 1],
                                               rowcount = 1)
    /\ UNCHANGED <<FileVars, dirExists, config, connector, schema, faults, budget>>
    /\ NoDriver

\* mutant: the error of the statement is not caught and ends the call
InsertFailsAndRaises(i) ==
    /\ pc[i] = "insert"
    /\ todo[i] # <<>>
    /\ schema # NoTable
    /\ Sendable(i)
    /\ faults < MaxFaults
    /\ faults' = faults + 1
    /\ EndCall(i, Raised("Error"))
    /\ hist' = Hist(i, EndHist([hist[i] EXCEPT !.skipped = @ + 1,
                                               !.attempts = @ + 1],
                                Raised("Error")), FALSE)
    /\ UNCHANGED <<FileVars, dirExists, config, connector, StoreVars, budget>>
    /\ NoDriver

\* lines 299-300 and 372-373: the statement the connector sent fails in the
\* store with a mysql.connector.Error (lock wait timeout, connection lost,
\* ...): logged, the row is skipped
InsertFails(i) ==
    /\ pc[i] = "insert"
    /\ todo[i] # <<>>
    /\ schema # NoTable
    /\ Sendable(i)
    /\ faults < MaxFaults
    /\ faults' = faults + 1
    /\ todo' = [todo EXCEPT ![i] = Tail(todo[i])]
    /\ hist' = Hist(i, [hist[i] EXCEPT !.skipped = @ + 1, !.attempts = @ + 1],
                    FALSE)
    /\ UNCHANGED <<FileVars, dirExists, config, connector, StoreVars, csv, df,
                   existing, rows_inserted, pc, outcome, budget, counted>>
    /\ NoDriver

\* both connections wait for a row the other one holds: the store ends the
\* deadlock by rolling back the transaction of one of them, whose statement
\* fails with a mysql.connector.Error (1213) that lines 299/372 catch
Deadlock(i) ==
    /\ pc[i] = "insert" /\ todo[i] # <<>>
    /\ pc[Other(i)] = "insert" /\ todo[Other(i)] # <<>>
    /\ InsertWaits(i, Head(todo[i]))
    /\ InsertWaits(Other(i), Head(todo[Other(i)]))
    /\ table' = RollbackTxn(table, i)
    /\ todo' = [todo EXCEPT ![i] = Tail(todo[i])]
    /\ hist' = Hist(i, [hist[i] EXCEPT !.skipped = @ + 1, !.attempts = @ + 1],
                    TRUE)
    /\ UNCHANGED <<FileVars, dirExists, config, connector, schema, csv, df, existing,
                   rows_inserted, pc, outcome, faults, budget, counted>>
    /\ NoDriver

\* lines 302-304 and 375-377: commit and return the counter
CommitAndReturn(i) ==
    /\ pc[i] = "insert"
    /\ todo[i] = <<>>
    /\ table' = CommitTxn(table, i)
    /\ EndCall(i, Returned(rows_inserted[i]))
    /\ hist' = Hist(i, EndHist(hist[i], Returned(rows_inserted[i])), HasPending(i))
    /\ UNCHANGED <<FileVars, dirExists, config, connector, schema, faults, budget>>
    /\ NoDriver

\* connection.commit() raises: lines 306-308 and 379-381 log and re-raise.
\* The open transaction is rolled back (connection lost) or stays open.
CommitFails(i) ==
    /\ pc[i] = "insert"
    /\ todo[i] = <<>>
    /\ faults < MaxFaults
    /\ faults' = faults + 1
    /\ \E lost \in BOOLEAN :
          /\ table' = IF lost THEN RollbackTxn(table, i) ELSE table
          /\ hist' = Hist(i, EndHist(hist[i], Raised("Error")),
                          lost /\ HasPending(i))
    /\ EndCall(i, Raised("Error"))
    /\ UNCHANGED <<FileVars, dirExists, config, connector, schema, budget>>
    /\ NoDriver

\* mutant: the error of CREATE TABLE is logged and the import goes on
CreateFailsAndGoesOn(i) ==
    /\ pc[i] \in {"i_ddl", "i_commit"}
    /\ faults < MaxFaults
    /\ faults' = faults + 1
    /\ pc' = [pc EXCEPT ![i] = "i_read"]
    /\ hist' = Hist(i, [hist[i] EXCEPT !.createFailed = TRUE], FALSE)
    /\ UNCHANGED <<FileVars, dirExists, config, connector, StoreVars, Locals, outcome,
                   budget, counted>>
    /\ NoDriver

\* lines 221-227: the store fails on CREATE TABLE, which then defines no
\* table, or on the commit that follows it, when the table the statement
\* defined stays (a failed commit does not undo DDL); logged and re-raised
CreateFails(i) ==
    /\ pc[i] \in {"i_ddl", "i_commit"}
    /\ faults < MaxFaults
    /\ faults' = faults + 1
    /\ EndCall(i, Raised("Error"))
    /\ hist' = Hist(i, EndHist([hist[i] EXCEPT !.createFailed = TRUE],
                                Raised("Error")), FALSE)
    /\ UNCHANGED <<FileVars, dirExists, config, connector, StoreVars, budget>>
    /\ NoDriver

\* lines 325 and 242: SHOW TABLES or the SELECT of the fingerprints fails
QueryFails(i) ==
    /\ pc[i] \in {"a_show", "a_select"}
    /\ faults < MaxFaults
    /\ faults' = faults + 1
    /\ EndCall(i, Raised("Error"))
    /\ hist' = Hist(i, EndHist(hist[i], Raised("Error")), FALSE)
    /\ UNCHANGED <<FileVars, dirExists, config, connector, StoreVars, budget>>
    /\ NoDriver

(***************************************************************************)
(* The environment: whoever writes the CSV files.                          *)
(***************************************************************************)
AppendRow(n, row) ==
    /\ exists(n)
    /\ clock < MaxTime
    /\ clock' = clock + 1
    /\ fs' = [fs EXCEPT ![n] = [mtime |-> clock + 1, rows |-> Append(@.rows, row)]]
    /\ UNCHANGED <<dirExists, config, connector, StoreVars, Locals, pc, outcome, faults,
                   budget, counted, hist>>
    /\ NoDriver

Sync(i) ==
    \/ AppendShowTables(i) \/ AppendLoadHashes(i)
    \/ AppendScan(i) \/ ImportResolve(i)
    \/ CreateTableRead(i) \/ ImportCreateTable(i) \/ CreateTableCommit(i)
    \/ ImportRead(i) \/ InsertRow(i) \/ CommitAndReturn(i)

StoreFault(i) ==
    \/ InsertFails(i) \/ CommitFails(i) \/ CreateFails(i) \/ QueryFails(i)

(***************************************************************************)
(* Spec: two instances, each called by its own program, on one table.      *)
(***************************************************************************)
DefaultConfig == [auto_create_table |-> TRUE, auto_find_latest |-> TRUE]

File(t, rows) == [mtime |-> t, rows |-> rows]

Disk(a, b, d) ==
    [n \in AllNames |-> IF n = "a.csv" THEN a ELSE IF n = "b.csv" THEN b ELSE d]

\* what the instances find when they are constructed: the files on disk,
\* whether the scan directory exists, and the configuration
Setups ==
    { [disk |-> Disk(NoFile, NoFile, NoFile), dir |-> FALSE,
       config |-> DefaultConfig],
      [disk |-> Disk(File(0, <<RowA>>), NoFile, NoFile), dir |-> TRUE,
       config |-> DefaultConfig],
      [disk |-> Disk(File(0, <<RowA>>), NoFile, NoFile), dir |-> TRUE,
       config |-> [DefaultConfig EXCEPT !.auto_create_table = FALSE]],
      [disk |-> Disk(File(0, <<RowA, RowA>>), NoFile, File(0, <<RowB>>)),
       dir |-> TRUE,
       config |-> [DefaultConfig EXCEPT !.auto_find_latest = FALSE]],
      [disk |-> Disk(File(0, <<RowB>>), NoFile, NoFile), dir |-> TRUE,
       config |-> [DefaultConfig EXCEPT !.auto_find_latest = FALSE]],
      [disk |-> Disk(File(0, <<RowA, RowB>>), File(0, <<RowB, RowA>>), NoFile),
       dir |-> TRUE, config |-> DefaultConfig],
      [disk |-> Disk(File(0, <<RowA, RowA>>), File(0, <<RowA, RowB>>), NoFile),
       dir |-> TRUE, config |-> DefaultConfig] }

InitLocals ==
    /\ clock = 0
    /\ schema = NoTable
    /\ table = <<>>
    /\ faults = 0
    /\ counted = 0
    /\ pc = [i \in Inst |-> "idle"]
    /\ csv = [i \in Inst |-> None]
    /\ df = [i \in Inst |-> <<>>]
    /\ existing = [i \in Inst |-> {}]
    /\ todo = [i \in Inst |-> <<>>]
    /\ rows_inserted = [i \in Inst |-> 0]
    /\ outcome = [i \in Inst |-> NoOutcome]
    /\ hist = [i \in Inst |-> NoHist]
    /\ connector \in Connectors

\* the csv_file arguments the callers pass
Args == Names \cup {None}

\* no program runs __main__, no watch loop runs
MainOff ==
    /\ mpc = "off"
    /\ configFile = "valid"
    /\ exit_status = None
    /\ failure = "none"

WatchOff ==
    /\ wpc = "off"
    /\ watched = None
    /\ last_processed_file = None
    /\ last_modified = 0
    /\ current_file = None
    /\ current_modified = 0
    /\ invoked = FALSE

(***************************************************************************)
(* Spec: one instance, called again and again while the files change.      *)
(***************************************************************************)
Init ==
    /\ \E s \in Setups :
          fs = s.disk /\ dirExists = s.dir /\ config = s.config
    /\ budget = MaxCalls
    /\ InitLocals
    /\ MainOff
    /\ WatchOff

Next ==
    \/ \E a \in Args : CallAppend(1, a) \/ CallImport(1, a)
    \/ Sync(1)
    \/ StoreFault(1)
    \/ \E row \in RowPool : AppendRow("a.csv", row)

Spec == Init /\ [][Next]_vars

(***************************************************************************)
(* SpecTwo: two instances on two connections write to the same table, each *)
(* from its own file.                                                      *)
(***************************************************************************)
InitTwo ==
    /\ \E s \in { x \in Setups : x.disk["b.csv"] # NoFile } :
          fs = s.disk /\ dirExists = s.dir /\ config = s.config
    /\ budget = MaxPairCalls
    /\ InitLocals
    /\ MainOff
    /\ WatchOff

NextTwo ==
    \/ \E i \in Inst, a \in Names : CallAppend(i, a) \/ CallImport(i, a)
    \/ \E i \in Inst : Sync(i) \/ StoreFault(i) \/ Deadlock(i)

SpecTwo == InitTwo /\ [][NextTwo]_vars

(***************************************************************************)
(* __main__: the program builds an instance from config.json, connects,    *)
(* runs append_new_rows() once, prints the statistics and disconnects.     *)
(* Every exception is caught and printed, sys.exit is never called: the    *)
(* script runs off its end.                                                *)
(***************************************************************************)
\* the script ends after its last statement or after an except clause
Terminate == mpc' = "exited" /\ exit_status' = 0

\* line 463, lines 14 and 95-98: config.json is read
MainConstruct ==
    /\ mpc \in {"off", "exited"}
    /\ budget > 0
    /\ configFile \in {"valid", "default"}
    /\ mpc' = "connect"
    /\ exit_status' = None
    /\ failure' = "none"
    /\ UNCHANGED <<SyncVars, configFile, WatchVars>>

\* mutant: FileNotFoundError is raised and no default document is written
MainConfigMissingNoDefault ==
    /\ mpc \in {"off", "exited"}
    /\ budget > 0
    /\ configFile = "missing"
    /\ failure' = "config"
    /\ Terminate
    /\ UNCHANGED <<SyncVars, configFile, WatchVars>>

\* lines 99-101 and 105-141: no config.json; a default one is written and
\* FileNotFoundError is raised, which line 488 catches
MainConfigMissing ==
    /\ mpc \in {"off", "exited"}
    /\ budget > 0
    /\ configFile = "missing"
    /\ configFile' = "default"
    /\ config' = DefaultConfig
    /\ failure' = "config"
    /\ Terminate
    /\ UNCHANGED <<fs, dirExists, clock, connector, schema, table, pc, csv,
                   df, existing, todo, rows_inserted, outcome, faults, budget,
                   counted, hist, WatchVars>>

\* lines 102-103: config.json is not JSON; ValueError, which line 491 catches
MainConfigInvalid ==
    /\ mpc \in {"off", "exited"}
    /\ budget > 0
    /\ configFile = "invalid"
    /\ failure' = "config"
    /\ Terminate
    /\ UNCHANGED <<SyncVars, configFile, WatchVars>>

\* lines 147-158: connect() returns True
MainConnect ==
    /\ mpc = "connect"
    /\ mpc' = "sync"
    /\ UNCHANGED <<SyncVars, configFile, exit_status, failure, WatchVars>>

\* lines 159-164: connect() logs the error and returns False; lines 485-486
MainConnectFails ==
    /\ mpc = "connect"
    /\ faults < MaxFaults
    /\ faults' = faults + 1
    /\ failure' = "connect"
    /\ Terminate
    /\ UNCHANGED <<fs, dirExists, clock, config, connector, schema, table, pc, csv, df,
                   existing, todo, rows_inserted, outcome, budget, counted,
                   hist, configFile, WatchVars>>

\* line 471: new_rows = csv_mysql.append_new_rows()
MainSync ==
    /\ mpc = "sync"
    /\ append_new_rows(1, None)
    /\ mpc' = "wait"
    /\ UNCHANGED <<configFile, exit_status, failure, WatchVars>>

\* line 472: the call returned its count
MainSynced ==
    /\ mpc = "wait"
    /\ pc[1] = "idle"
    /\ outcome[1].kind = "returned"
    /\ mpc' = "stats"
    /\ UNCHANGED <<SyncVars, configFile, exit_status, failure, WatchVars>>

\* the call raised: the finally of line 482 disconnects, which ends the open
\* transaction, and line 491 catches the exception
MainSyncRaised ==
    /\ mpc = "wait"
    /\ pc[1] = "idle"
    /\ outcome[1].kind = "raised"
    /\ table' = RollbackTxn(table, 1)
    /\ failure' = "sync"
    /\ Terminate
    /\ UNCHANGED <<fs, dirExists, clock, config, connector, schema, pc, csv, df, existing,
                   todo, rows_inserted, outcome, faults, budget, counted, hist,
                   configFile, WatchVars>>

\* lines 475-479: get_table_stats() returns the statistics or None, and the
\* program prints what it got
MainStats ==
    /\ mpc = "stats"
    /\ mpc' = "disconnect"
    /\ UNCHANGED <<SyncVars, configFile, exit_status, failure, WatchVars>>

\* lines 482-483 and 166-174: disconnect(), then the end of the script
MainDisconnect ==
    /\ mpc = "disconnect"
    /\ table' = RollbackTxn(table, 1)
    /\ Terminate
    /\ UNCHANGED <<fs, dirExists, clock, config, connector, schema, pc, csv, df, existing,
                   todo, rows_inserted, outcome, faults, budget, counted, hist,
                   configFile, failure, WatchVars>>

Main ==
    \/ MainConstruct \/ MainConfigMissing \/ MainConfigInvalid
    \/ MainConnect \/ MainConnectFails
    \/ MainSync \/ MainSynced \/ MainSyncRaised
    \/ MainStats \/ MainDisconnect

(***************************************************************************)
(* SpecMain: the program is run, and run again, while the file changes.    *)
(***************************************************************************)
ConfigFiles == {"valid", "missing", "invalid"}

InitMain ==
    /\ \E s \in Setups :
          fs = s.disk /\ dirExists = s.dir /\ config = s.config
    /\ budget = MaxCalls
    /\ InitLocals
    /\ mpc = "off"
    /\ configFile \in ConfigFiles
    /\ configFile = "valid" \/ config = DefaultConfig
    /\ exit_status = None
    /\ failure = "none"
    /\ WatchOff

NextMain ==
    \/ Main
    \/ Sync(1)
    \/ StoreFault(1)
    \/ \E row \in RowPool : AppendRow("a.csv", row)

SpecMain == InitMain /\ [][NextMain]_vars

(***************************************************************************)
(* monitor_csv_and_sync: the watch loop.                                   *)
(***************************************************************************)
\* lines 412-425: the call, up to the first iteration
WatchStart(csv_file) ==
    /\ wpc = "off"
    /\ wpc' = "poll"
    /\ watched' = csv_file
    /\ last_processed_file' = None
    /\ last_modified' = 0
    /\ UNCHANGED <<SyncVars, MainVars, current_file, current_modified, invoked>>

\* lines 429-433 and 449: the current file; find_latest_csv creates the
\* scan directory when it is missing
WatchResolve ==
    /\ wpc = "poll"
    /\ \E f \in (IF watched = None THEN find_latest_csv
                 ELSE IF exists(watched) THEN {watched} ELSE {None}) :
          /\ current_file' = f
          /\ wpc' = IF f = None THEN "sleep" ELSE "stat"
    /\ dirExists' = (dirExists \/ watched = None)
    /\ invoked' = FALSE
    /\ UNCHANGED <<fs, clock, config, connector, schema, table, pc, csv, df, existing,
                   todo, rows_inserted, outcome, faults, budget, counted, hist,
                   MainVars, watched, last_processed_file, last_modified,
                   current_modified>>

\* line 435: current_modified = os.path.getmtime(current_file)
WatchStat ==
    /\ wpc = "stat"
    /\ current_modified' = fs[current_file].mtime
    /\ wpc' = "decide"
    /\ UNCHANGED <<SyncVars, MainVars, watched, last_processed_file,
                   last_modified, current_file, invoked>>

\* mutant: a file whose time has not advanced counts as changed
ChangeDetectedOrSame(file, modified, last_file, last_time) ==
    file # last_file \/ modified >= last_time

\* line 438: a new file, or the file was modified
ChangeDetected(file, modified, last_file, last_time) ==
    file # last_file \/ modified > last_time

\* lines 438-440: new_rows = self.append_new_rows(current_file, table_name)
WatchSync ==
    /\ wpc = "decide"
    /\ ChangeDetected(current_file, current_modified,
                      last_processed_file, last_modified)
    /\ append_new_rows(1, current_file)
    /\ wpc' = "sync"
    /\ invoked' = TRUE
    /\ UNCHANGED <<MainVars, watched, last_processed_file, last_modified,
                   current_file, current_modified>>

\* line 438 is false: on to the sleep of line 451
WatchSkip ==
    /\ wpc = "decide"
    /\ ~ChangeDetected(current_file, current_modified,
                       last_processed_file, last_modified)
    /\ wpc' = "sleep"
    /\ UNCHANGED <<SyncVars, MainVars, watched, last_processed_file,
                   last_modified, current_file, current_modified, invoked>>

\* lines 442-447: the sync returned (and the statistics, asked for when rows
\* were added, were read); the file and its time are recorded
WatchRecord ==
    /\ wpc = "sync"
    /\ pc[1] = "idle"
    /\ outcome[1].kind = "returned"
    /\ last_processed_file' = current_file
    /\ last_modified' = current_modified
    /\ wpc' = "sleep"
    /\ UNCHANGED <<SyncVars, MainVars, watched, current_file, current_modified,
                   invoked>>

\* lines 442-444: get_table_stats fails and returns None; stats['total_rows']
\* raises TypeError, which line 455 catches: the loop is over, the call
\* returns after logging the error
WatchStatsFail ==
    /\ wpc = "sync"
    /\ pc[1] = "idle"
    /\ outcome[1].kind = "returned"
    /\ outcome[1].value > 0
    /\ faults < MaxFaults
    /\ faults' = faults + 1
    /\ wpc' = "failed"
    /\ UNCHANGED <<fs, dirExists, clock, config, connector, schema, table, pc, csv, df,
                   existing, todo, rows_inserted, outcome, budget, counted,
                   hist, MainVars, watched, last_processed_file, last_modified,
                   current_file, current_modified, invoked>>

\* lines 455-456: the sync raised; the error is logged and the loop is over
WatchSyncRaised ==
    /\ wpc = "sync"
    /\ pc[1] = "idle"
    /\ outcome[1].kind = "raised"
    /\ wpc' = "failed"
    /\ UNCHANGED <<SyncVars, MainVars, watched, last_processed_file,
                   last_modified, current_file, current_modified, invoked>>

\* line 451: time.sleep(check_interval), then the next iteration
WatchSleep ==
    /\ wpc = "sleep"
    /\ wpc' = "poll"
    /\ UNCHANGED <<SyncVars, MainVars, watched, last_processed_file,
                   last_modified, current_file, current_modified, invoked>>

\* lines 453-454: the user interrupts the loop.  An interrupt that arrives
\* inside append_new_rows is not caught there (line 379 catches Exception):
\* the sync is abandoned where it stands, its locals are gone, it has
\* neither returned nor raised, and what it wrote stays uncommitted in the
\* open transaction
WatchInterrupt ==
    /\ wpc \in {"poll", "stat", "decide", "sleep", "sync"}
    /\ wpc' = "interrupted"
    /\ IF pc[1] # "idle"
       THEN /\ pc' = [pc EXCEPT ![1] = "idle"]
            /\ csv' = [csv EXCEPT ![1] = None]
            /\ df' = [df EXCEPT ![1] = <<>>]
            /\ existing' = [existing EXCEPT ![1] = {}]
            /\ todo' = [todo EXCEPT ![1] = <<>>]
            /\ rows_inserted' = [rows_inserted EXCEPT ![1] = 0]
            /\ outcome' = [outcome EXCEPT ![1] = NoOutcome]
       ELSE UNCHANGED <<pc, csv, df, existing, todo, rows_inserted, outcome>>
    /\ UNCHANGED <<fs, dirExists, clock, config, connector, schema, table, faults,
                   budget, counted, hist, MainVars, watched,
                   last_processed_file, last_modified, current_file,
                   current_modified, invoked>>

Watch ==
    \/ WatchResolve \/ WatchStat \/ WatchSync \/ WatchSkip \/ WatchRecord
    \/ WatchStatsFail \/ WatchSyncRaised \/ WatchSleep \/ WatchInterrupt

(***************************************************************************)
(* SpecWatch: one instance runs the watch loop while the file changes.     *)
(***************************************************************************)
InitWatch ==
    /\ \E s \in Setups :
          fs = s.disk /\ dirExists = s.dir /\ config = s.config
    /\ budget = MaxCalls
    /\ InitLocals
    /\ MainOff
    /\ WatchOff

NextWatch ==
    \/ \E a \in Args : WatchStart(a)
    \/ Watch
    \/ Sync(1)
    \/ StoreFault(1)
    \/ \E row \in RowPool : AppendRow("a.csv", row)

SpecWatch == InitWatch /\ [][NextWatch]_vars

(***************************************************************************)
(* SpecRows: one instance syncs, again and again, a file whose data rows   *)
(* are drawn from samples that cover empty fields, short rows, numbers     *)
(* written in several ways, booleans and text that holds the '|' sign.     *)
(***************************************************************************)
RowSamples ==
    { RowA, RowB, RowC,
      << <<>>, <<"a">> >>,                    \* ,a
      << <<"1">> >>,                          \* 1      (a short row)
      << <<"1">>, <<>> >>,                    \* 1,
      << <<"1">>, <<"2">> >>,                 \* 1,2
      << <<"0", "1">>, <<"a">> >>,            \* 01,a
      << <<"T", "r", "u", "e">>, <<"a">> >>,  \* True,a
      << <<"T", "R", "U", "E">>, <<"a">> >>,  \* TRUE,a
      << <<>>, <<"|", "b">> >>,               \* ,|b
      << <<"n", "a", "n", "|">>, <<"b">> >>,  \* nan|,b
      << <<"a", "|">>, <<"b">> >>,            \* a|,b
      << <<"a">>, <<"|", "b">> >> }           \* a,|b

SampleFiles == UNION { [1..n -> RowSamples] : n \in 1..MaxRows }

InitRows ==
    /\ \E rows \in SampleFiles : fs = Disk(File(0, rows), NoFile, NoFile)
    /\ dirExists = TRUE
    /\ config = DefaultConfig
    /\ budget = MaxCalls
    /\ InitLocals
    /\ MainOff
    /\ WatchOff

NextRows ==
    \/ CallAppend(1, "a.csv")
    \/ Sync(1)

SpecRows == InitRows /\ [][NextRows]_vars

(***************************************************************************)
(* SpecWatchLive: the watch loop is never interrupted, and neither the     *)
(* loop nor the sync it called stops between two statements.  The store    *)
(* may fail and the file may change, or not.                               *)
(***************************************************************************)
LoopStep ==
    \/ WatchResolve \/ WatchStat \/ WatchSync \/ WatchSkip \/ WatchRecord
    \/ WatchSyncRaised \/ WatchSleep

NextWatchLive ==
    \/ \E a \in Args : WatchStart(a)
    \/ LoopStep
    \/ WatchStatsFail
    \/ Sync(1)
    \/ StoreFault(1)
    \/ \E row \in RowPool : AppendRow("a.csv", row)

SpecWatchLive ==
    /\ InitWatch
    /\ [][NextWatchLive]_vars
    /\ WF_vars(LoopStep)
    /\ WF_vars(Sync(1))

(***************************************************************************)
(* The claims.                                                             *)
(***************************************************************************)
Ended(i) == pc[i] = "idle" /\ outcome[i].kind # "none"
HasReturned(i) == pc[i] = "idle" /\ outcome[i].kind = "returned"
RowsOf(t) == [k \in 1..Len(t) |-> t[k].row_hash]
RowsOfSet(t) == { t[k].row_hash : k \in 1..Len(t) }
VisibleIn(t, i) ==
    { t[k].row_hash : k \in { k \in 1..Len(t) : t[k].txn \in {Committed, i} } }
Quiet == (\A i \in Inst : pc[i] = "idle")
         /\ (\A k \in 1..Len(table) : table[k].txn = Committed)

\* a call that follows a call that returned, reads the same rows as that
\* call read, and runs with no write by another connection in between
SecondCall(i) ==
    /\ HasReturned(i)
    /\ hist[i].prevReturned
    /\ hist[i].read = hist[i].prevRead
    /\ ~hist[i].foreign

\* C1, as claimed: a sync call made after a sync call that completed, on the
\* unchanged file and with no other writer in between, returns 0 and leaves
\* the rows of the table as they were.
C1_Original ==
    \A i \in Inst :
        SecondCall(i) =>
            /\ outcome[i].value = 0
            /\ RowsOf(table) = RowsOf(hist[i].table0)

\* what the code does keep of C1: the second call returns 0 and leaves the
\* rows as they were when the first call skipped no row.  A row the first
\* call skipped is not in the table, so the second call finds it new.
C1_Idempotent ==
    \A i \in Inst :
        (SecondCall(i) /\ ~hist[i].prevSkipped) =>
            /\ outcome[i].value = 0
            /\ RowsOf(table) = RowsOf(hist[i].table0)

C1_Witness ==
    \E i \in Inst :
        /\ SecondCall(i) /\ ~hist[i].prevSkipped
        /\ Len(hist[i].read) > 0
        /\ Len(table) > 0

\* the call ran with auto-create on or on an existing table, it skipped no
\* row and no other connection wrote meanwhile
Undisturbed(i) ==
    /\ HasReturned(i)
    /\ hist[i].skipped = 0
    /\ ~hist[i].foreign
    /\ (config.auto_create_table \/ hist[i].exists0)

\* a sync call that found its file is over, with no failure of the store so
\* far and no write by another connection during it
Unfailed(i) ==
    /\ Ended(i)
    /\ ~hist[i].noSource
    /\ faults = 0
    /\ ~hist[i].foreign

\* C2, as claimed: the first sync of a file of n rows into a table that does
\* not exist yet does not fail, creates the table and returns n; a sync of
\* the file the previous sync read returns 0; and a sync after k rows were
\* appended to the file the previous sync read returns k.
C2_Original ==
    \A i \in Inst :
        Unfailed(i) =>
            /\ ~hist[i].exists0 =>
                  /\ outcome[i].kind = "returned"
                  /\ schema # NoTable
                  /\ outcome[i].value = Len(hist[i].read)
            /\ ( /\ hist[i].prevReturned
                 /\ Len(hist[i].read) >= Len(hist[i].prevRead)
                 /\ SubSeq(hist[i].read, 1, Len(hist[i].prevRead)) = hist[i].prevRead )
               => /\ outcome[i].kind = "returned"
                  /\ outcome[i].value = Len(hist[i].read) - Len(hist[i].prevRead)

\* a sync that returned 1 was followed, after a row was appended to its
\* file, by a sync that inserted the row it had stored once more
StoredRowInsertedAgain ==
    \E i \in Inst :
        /\ Unfailed(i)
        /\ hist[i].prevReturned /\ ~hist[i].prevSkipped
        /\ Len(hist[i].prevRead) = 1
        /\ Len(hist[i].read) = 2
        /\ hist[i].read[1] = hist[i].prevRead[1]
        /\ hist[i].read[2] # hist[i].read[1]
        /\ RowsOf(hist[i].table0) = RowHashes(hist[i].prevRead)
        /\ outcome[i] = Returned(2)

\* what the code does keep of C2: a sync that skips no row and that no other
\* writer disturbs returns the number of distinct fingerprints of the
\* file's rows that the table did not hold when it started, and the table
\* exists afterwards.
C2_Counts ==
    \A i \in Inst :
        Undisturbed(i) =>
            /\ schema # NoTable
            /\ outcome[i].value =
                  Cardinality(Range(RowHashes(hist[i].read))
                              \ VisibleIn(hist[i].table0, i))

\* a third sync, after a row was appended, that returned more than one row
C2_Witness ==
    \E i \in Inst :
        /\ Undisturbed(i)
        /\ hist[i].prevReturned /\ ~hist[i].prevSkipped
        /\ Len(hist[i].read) = Len(hist[i].prevRead) + 1
        /\ SubSeq(hist[i].read, 1, Len(hist[i].prevRead)) = hist[i].prevRead
        /\ Len(hist[i].table0) > 0
        /\ outcome[i].value > 0

\* C3: with two instances syncing into the same table and no store failure,
\* once both are done the counts they returned add up to the number of rows
\* in the table.
C3_SumOfCounts ==
    (Quiet /\ faults = 0) => counted = Len(table)

\* C4: the table never holds two rows with the same row_hash.
C4_UniqueFingerprints ==
    \A k, m \in 1..Len(table) :
        k # m => table[k].row_hash # table[m].row_hash

\* a call has had an insert ignored as a duplicate
C4_Witness ==
    \E i \in Inst :
        /\ HasReturned(i)
        /\ hist[i].attempts > hist[i].accepted + hist[i].skipped
        /\ Len(table) >= 2

\* C5: an insert that fails leaves the call in its loop with the counter as
\* it was, and a call that skipped rows still attempts every row and
\* returns the number of rows its inserts added.
C5_RowFailureIsolated ==
    /\ [](\A i \in Inst :
            (HasReturned(i) /\ hist[i].skipped > 0) =>
                /\ outcome[i].value = hist[i].accepted
                /\ hist[i].attempts = hist[i].planned)
    /\ [][\A i \in Inst :
            (pc[i] = "insert" /\ faults' > faults /\ todo[i] # <<>>) =>
                /\ pc'[i] = "insert"
                /\ todo'[i] = Tail(todo[i])
                /\ rows_inserted'[i] = rows_inserted[i]
                /\ table' = table]_vars

C5_Witness ==
    \E i \in Inst :
        /\ HasReturned(i)
        /\ hist[i].skipped > 0
        /\ faults > 0
        /\ outcome[i].value > 0

\* C6: when the store fails while the table is created (on CREATE TABLE or
\* on the commit that follows it) the call is over, it has raised, it has
\* executed no insert, and the table holds the rows it held.
C6_CreateFailureFatal ==
    \A i \in Inst :
        hist[i].createFailed =>
            /\ pc[i] = "idle"
            /\ outcome[i].kind = "raised"
            /\ hist[i].attempts = 0
            /\ RowsOf(table) = RowsOf(hist[i].table0)

C6_Witness ==
    \E i \in Inst : hist[i].createFailed /\ outcome[i].kind = "raised"

\* C7: with auto_create_table off and the table missing, a sync call that
\* found its file ends with an error.
C7_MissingTableIsFatal ==
    \A i \in Inst :
        ( /\ Ended(i)
          /\ ~config.auto_create_table
          /\ ~hist[i].exists0
          /\ ~hist[i].noSource )
        => outcome[i].kind = "raised"

\* C8, as claimed: a sync call for which no source file can be resolved
\* returns 0 and leaves the store unchanged.
C8_Original ==
    \A i \in Inst :
        (Ended(i) /\ hist[i].noSource) =>
            /\ outcome[i] = Returned(0)
            /\ table = hist[i].table0

\* C8, amended: such a call raises FileNotFoundError, executes no insert and
\* leaves table and schema unchanged.
C8_AbsentSourceRaises ==
    \A i \in Inst :
        (Ended(i) /\ hist[i].noSource) =>
            /\ outcome[i] = Raised("FileNotFoundError")
            /\ hist[i].attempts = 0
            /\ table = hist[i].table0
            /\ (schema # NoTable) = hist[i].exists0

C8_Witness ==
    \E i \in Inst :
        /\ Ended(i) /\ hist[i].noSource
        /\ outcome[i].kind = "raised"
        /\ Len(table) > 0

\* C9 (as stated): the exit status reflects the outcome.  When the program
\* has terminated, its status is the success status exactly when nothing
\* failed: the configuration was loaded, the store was connected to, and the
\* sync it ran returned.
C9_ExitStatus ==
    mpc = "exited" => (exit_status = 0 <=> failure = "none")

\* the condition C10 states for an iteration of the watch loop
WatchTrigger ==
    /\ current_file # None
    /\ \/ current_file # last_processed_file
       \/ current_modified > last_modified

\* C10: watch loop trigger.  An iteration of the watch loop calls the sync
\* if and only if it resolved a current file and that file differs from the
\* last processed one or its modification time is greater than the recorded
\* one; nothing else in the loop calls the sync.  An iteration that resolved
\* the same file with an unchanged time called no sync, and when an
\* iteration that called the sync reaches its sleep, the recorded file and
\* time are the ones it observed; iterations that call no sync leave the
\* record as it is.
C10_WatchTrigger ==
    /\ [](wpc = "sleep" /\ invoked =>
             /\ last_processed_file = current_file
             /\ last_modified = current_modified)
    /\ [](wpc = "sleep" /\ ~invoked => ~WatchTrigger)
    /\ [][budget' # budget => wpc = "decide" /\ WatchTrigger]_vars
    /\ [][wpc = "decide" /\ wpc' \in {"sync", "sleep"} =>
             ((budget' = budget - 1 /\ invoked') <=> WatchTrigger)]_vars
    /\ [][wpc \notin {"off", "sync"} =>
             UNCHANGED <<last_processed_file, last_modified>>]_vars

\* C10's case: after an earlier sync of the file, an iteration resolved the
\* same file with the recorded time, called no sync and went to sleep
C10_Witness ==
    /\ wpc = "sleep"
    /\ ~invoked
    /\ current_file # None
    /\ current_file = last_processed_file
    /\ current_modified = last_modified
    /\ outcome[1].kind = "returned"
    /\ hist[1].lastRead # <<>>

\* C11: watch loop termination.  The watch loop is left only on an external
\* interrupt: it never ends because a poll found no file, a sync inserted
\* nothing, or a sync failed.
C11_OnlyInterruptEnds ==
    wpc # "failed"

\* C12: a missing configuration is fatal and self-healing.  Constructing the
\* instance when config.json does not exist writes the default document and
\* fails: the error reaches the caller, which neither connects nor syncs and
\* changes nothing in the store.  Constructing again with the document as it
\* was written loads it without error: the program goes on to connect, with
\* the default configuration.
C12_MissingConfig ==
    /\ [][(configFile = "missing" /\ mpc' # mpc) =>
             /\ configFile' = "default"
             /\ config' = DefaultConfig
             /\ failure' = "config"
             /\ mpc' = "exited"
             /\ UNCHANGED <<StoreVars, pc, budget, faults, hist>>]_vars
    /\ [][(configFile = "default" /\ mpc \in {"off", "exited"} /\ mpc' # mpc) =>
             /\ mpc' = "connect"
             /\ failure' = "none"
             /\ UNCHANGED <<configFile, config>>]_vars

\* the program was run without config.json, failed, and was run again: it
\* has loaded the default document and is about to connect
C12_Witness ==
    /\ configFile = "default"
    /\ config = DefaultConfig
    /\ mpc = "connect"
    /\ failure = "none"

\* the values of column j in the rows of a file, and the ones that are not
\* empty
ColumnValues(rows, j) == { Cell(rows[r], j) : r \in 1..Len(rows) }
NonEmpty(rows, j) == { c \in ColumnValues(rows, j) : c # <<>> }

\* C13: a column with a non-empty value, all of whose non-empty
\* values parse as integers, is created as INT, also when some of its values
\* are empty; otherwise, when all its non-empty values parse as floating
\* point, it is DECIMAL; any other column is text (VARCHAR).
C13_TypePrecedence ==
    schema # NoTable =>
        \A j \in 1..NCols :
            LET some == NonEmpty(fs["a.csv"].rows, j)
            IN  schema.cols[j] =
                   IF some # {} /\ \A c \in some : IsIntLit(c) THEN "INT"
                   ELSE IF some # {} /\ \A c \in some : IsFloatLit(c)
                        THEN "DECIMAL"
                   ELSE "VARCHAR"

\* what create_table_from_csv does instead, from the dtypes pandas infers
\* (C13): the column is INT when it has no empty value and every
\* value parses as an integer; DECIMAL when every non-empty value parses as
\* a number and some value is empty or is not an integer (a column of empty
\* values included); BOOLEAN when every value is a True/False literal and
\* none is empty; VARCHAR otherwise.
C13_TypeInference ==
    schema # NoTable =>
        \A j \in 1..NCols :
            LET vals == ColumnValues(fs["a.csv"].rows, j)
                some == NonEmpty(fs["a.csv"].rows, j)
            IN  schema.cols[j] =
                   IF \A c \in vals : IsIntLit(c) THEN "INT"
                   ELSE IF \A c \in some : IsFloatLit(c) THEN "DECIMAL"
                   ELSE IF \A c \in vals : IsBoolLit(c) THEN "BOOLEAN"
                   ELSE "VARCHAR"

\* a table was created from a file with an integer column that has an empty
\* value: the column is DECIMAL
C13_Witness ==
    /\ schema # NoTable
    /\ <<>> \in ColumnValues(fs["a.csv"].rows, 1)
    /\ <<"1">> \in ColumnValues(fs["a.csv"].rows, 1)
    /\ schema.cols[1] = "DECIMAL"

\* a row of the file with the fields of the header, the missing trailing
\* ones written out as empty
Padded(row) == [j \in 1..NCols |-> IF j <= Len(row) THEN row[j] ELSE <<>>]

\* rows r and q of the file: r is short, q spells r's missing fields as empty
ShortAndExplicit(rows, r, q) ==
    /\ Len(rows[r]) < NCols
    /\ Len(rows[q]) = NCols
    /\ rows[q] = Padded(rows[r])

\* C14: row padding.  A row with fewer fields than the header gets the
\* fingerprint of the row that carries the missing trailing fields as empty
\* ones; a sync of a file that holds both does not fail, and once it has
\* returned the table holds that fingerprint exactly once: one of the two
\* rows was treated as the duplicate of the other.
C14_RowPadding ==
    LET rows == fs["a.csv"].rows
    IN  \A r, q \in 1..Len(rows) :
            ShortAndExplicit(rows, r, q) =>
                /\ generate_row_hash(rows, r) = generate_row_hash(rows, q)
                /\ Ended(1) => outcome[1].kind = "returned"
                /\ HasReturned(1) =>
                      Cardinality({ k \in 1..Len(table) :
                          table[k].row_hash = generate_row_hash(rows, r) }) = 1

\* what holds of the padding (C14): the short row and the row that
\* spells its missing fields as empty have the same fingerprint, and the
\* sync of a file that holds both returns
C14_SameFingerprint ==
    LET rows == fs["a.csv"].rows
    IN  \A r, q \in 1..Len(rows) :
            ShortAndExplicit(rows, r, q) =>
                /\ generate_row_hash(rows, r) = generate_row_hash(rows, q)
                /\ Ended(1) => outcome[1].kind = "returned"

\* the values of row r after string coercion, in column order
CoercedValues(rows, r) == [j \in 1..NCols |-> ValueStr(rows, r, j)]

\* C15: the fingerprint identifies the value sequence.  Of the rows a sync
\* call has read, two have the same fingerprint exactly when their coerced
\* value sequences are identical; and once the call has returned, two rows
\* of the file that differ in a value are both in the table.
C15_FingerprintIdentifies ==
    LET rows == hist[1].read
    IN  \A r, q \in 1..Len(rows) :
            /\ (generate_row_hash(rows, r) = generate_row_hash(rows, q))
                  <=> (CoercedValues(rows, r) = CoercedValues(rows, q))
            /\ (HasReturned(1) /\ CoercedValues(rows, r) # CoercedValues(rows, q))
                  => Cardinality({ k \in 1..Len(table) :
                        table[k].row_hash \in { generate_row_hash(rows, r),
                                                generate_row_hash(rows, q) } }) = 2

\* the rows of the table that were not in it when the call of i started
AddedSince(i) ==
    { k \in 1..Len(table) :
        table[k].row_hash \notin RowsOfSet(hist[i].table0) }

\* C16: commit per batch.  A call writes its rows in batches smaller than
\* the whole file and commits after each batch: when a call fails after its
\* inserts have added two rows or more, at least the rows of its first batch
\* are committed in the store.
C16_CommitPerBatch ==
    \A i \in Inst :
        (Ended(i) /\ outcome[i].kind = "raised" /\ hist[i].accepted >= 2) =>
            \E k \in AddedSince(i) : table[k].txn = Committed

\* C17: the schema is created once and never altered.  No step changes the
\* definition of a table that exists, whatever file is synced; and while
\* the store does not fail, a sync call on a table that exists returns.
C17_SchemaNeverAltered ==
    /\ [][schema # NoTable => schema' = schema]_vars
    /\ [](\A i \in Inst :
            (Ended(i) /\ hist[i].exists0 /\ ~hist[i].noSource /\ faults = 0)
                => outcome[i].kind = "returned")

\* a sync call on the existing table has returned although the header of
\* its file differs from the columns of the table: its inserts were refused
C17_Witness ==
    /\ schema # NoTable
    /\ schema.names # Header(DefaultFile)
    /\ HasReturned(1)
    /\ hist[1].exists0
    /\ hist[1].skipped > 0
    /\ hist[1].read = <<RowB>>
    /\ faults = 0

\* the files the loop would resolve now
CurrentFiles ==
    IF watched = None THEN find_latest_csv
    ELSE IF exists(watched) THEN {watched} ELSE {None}

\* the source has changed since the loop last recorded it: whichever file
\* the loop resolves now, it is another one than the recorded one, or its
\* time has advanced
SourceChanged ==
    /\ wpc # "off"
    /\ \A f \in CurrentFiles :
          /\ f # None
          /\ f # last_processed_file \/ fs[f].mtime > last_modified

\* the loop's last call of the sync was for a file it would resolve now and
\* started when that file was already as it is now
SyncStartedAfterChange ==
    /\ wpc # "off"
    /\ \E f \in CurrentFiles :
          /\ f # None
          /\ budget < MaxCalls
          /\ hist[1].arg = f
          /\ hist[1].started >= fs[f].mtime

\* C18: watch loop liveness.  While the loop is not interrupted and its
\* iterations are scheduled fairly, every change of the source is
\* eventually followed by a call of the sync on the current file that
\* starts after the change (as long as the callers' budget of the model
\* allows one more call).
C18_WatchLiveness ==
    (SourceChanged /\ budget > 0) ~> (SyncStartedAfterChange \/ budget = 0)

\* the same while the store does not fail
C18_LiveWithoutFailure ==
    (SourceChanged /\ budget > 0)
        ~> (SyncStartedAfterChange \/ budget = 0 \/ faults > 0)

\* the file a call that has just been entered resolved, None when it found
\* none and raised
Resolved(i) == IF pc[i] = "idle" THEN None ELSE csv[i]

\* instance i enters a sync call in this step
Enters(i) ==
    /\ pc[i] = "idle"
    /\ budget' < budget
    /\ pc'[i] # "idle" \/ outcome'[i] = Raised("FileNotFoundError")

\* the files of the scan directory that match the pattern
Matching == { n \in Names : fs[n] # NoFile }

\* C19: source file resolution.  A call given an explicit path works on
\* that path when it exists and finds no file when it does not, whatever
\* the scan directory holds.  A call given no path with auto_find_latest
\* on works on a matching file of the scan directory that no other
\* matching file is newer than; it finds none when the directory holds no
\* matching file or does not exist, and in the latter case the directory
\* exists afterwards.
C19_SourceResolution ==
    [][\A i \in Inst :
          Enters(i) =>
             LET arg == hist'[i].arg
                 r == Resolved(i)'
             IN  /\ arg # None =>
                       r = (IF fs[arg] # NoFile THEN arg ELSE None)
                 /\ (arg = None /\ config.auto_find_latest) =>
                       /\ ~dirExists => (r = None /\ dirExists')
                       /\ (dirExists /\ Matching = {}) => r = None
                       /\ (dirExists /\ Matching # {}) =>
                             /\ r \in Matching
                             /\ \A m \in Matching :
                                   fs[m].mtime <= fs[r].mtime]_vars

\* a call given no path has resolved a.csv, which is newer than b.csv
C19_Witness ==
    /\ pc[1] # "idle"
    /\ hist[1].arg = None
    /\ config.auto_find_latest
    /\ csv[1] = "a.csv"
    /\ fs["a.csv"] # NoFile /\ fs["b.csv"] # NoFile
    /\ fs["b.csv"].mtime < fs["a.csv"].mtime
    /\ hist[1].started >= fs["a.csv"].mtime

\* the fingerprints of the committed rows of table t
DurableIn(t) == { t[k].row_hash : k \in { k \in 1..Len(t) : t[k].txn = Committed } }

\* the rows that became durable since instance i entered its call
MadeDurable(i) == DurableIn(table) \ DurableIn(hist[i].table0)

\* when instance i entered its call, its connection still held inserts that
\* an earlier call had executed before it raised
EnteredWithPending(i) ==
    \E k \in 1..Len(hist[i].table0) : hist[i].table0[k].txn = i

\* C20: no partial commit on failure.  When a call ends by raising an error
\* after it has executed inserts, none of the rows it added is committed;
\* and a later call on the same connection that returns, returns the number
\* of rows that became durable during that later call.
C20_NoPartialCommit ==
    \A i \in Inst :
       /\ (Ended(i) /\ outcome[i].kind = "raised" /\ ~hist[i].foreign) =>
             \A k \in AddedSince(i) : table[k].txn # Committed
       /\ (HasReturned(i) /\ EnteredWithPending(i) /\ ~hist[i].foreign) =>
             outcome[i].value = Cardinality(MadeDurable(i))

\* the first half alone: a call that raised committed none of its inserts
C20_RaisedCommitsNothing ==
    \A i \in Inst :
       (Ended(i) /\ outcome[i].kind = "raised" /\ ~hist[i].foreign) =>
          \A k \in AddedSince(i) : table[k].txn # Committed

\* a call raised after it had added rows, which are still not committed
C20_RaisedWithInserts ==
    /\ Ended(1)
    /\ outcome[1].kind = "raised"
    /\ hist[1].accepted > 0
    /\ AddedSince(1) # {}

\* s is t with some of its elements left out
RECURSIVE IsSubseq(_, _)
IsSubseq(s, t) ==
    IF s = <<>> THEN TRUE
    ELSE IF t = <<>> THEN FALSE
    ELSE IF Head(s) = Head(t) THEN IsSubseq(Tail(s), Tail(t))
    ELSE IsSubseq(s, Tail(t))

\* the fingerprints of the rows the running call of instance i has added
\* and not yet committed, as the table holds them
OwnAdded(i) ==
    LET own == SelectSeq(table, LAMBDA r :
                   r.txn = i /\ r.row_hash \notin RowsOfSet(hist[i].table0))
    IN  RowsOf(own)

\* instance i executes the INSERT IGNORE of a row whose fingerprint is in a
\* row its connection sees
InsertsKnownRow(i) ==
    /\ pc[i] = "insert"
    /\ todo[i] # <<>>
    /\ todo'[i] = Tail(todo[i])
    /\ Head(todo[i]) \in VisibleIn(table, i)

\* C21: sync only adds rows.  With two instances interleaved on one table,
\* no step deletes or changes a committed row: the committed rows of the
\* table stay, in their order, so the set of stored fingerprints only
\* grows.  The insert of a row of the file that is not new leaves the table
\* as it is.  The rows a call has added are in the table in the order of
\* the rows of its file.
C21_SyncOnlyAdds ==
    /\ [][/\ IsSubseq(CommittedHashes, CommittedHashes')
          /\ \A i \in Inst : InsertsKnownRow(i) => table' = table]_vars
    /\ [](\A i \in Inst : IsSubseq(OwnAdded(i), RowHashes(hist[i].read)))

\* instance 1 has stored the two rows of a.csv in their order; instance 2
\* has then executed the inserts of the same rows from b.csv, in the other
\* order, none of them new, and the table is as instance 1 left it
C21_Witness ==
    /\ hist[1].read = <<RowA, RowB>>
    /\ hist[1].accepted = 2
    /\ hist[2].read = <<RowB, RowA>>
    /\ hist[2].attempts = 2
    /\ hist[2].accepted = 0
    /\ hist[2].skipped = 0
    /\ RowsOf(table) = RowHashes(<<RowA, RowB>>)
    /\ \A k \in 1..Len(table) : table[k].txn = Committed

====
